---- MODULE Spec2Model ----
(***************************************************************************)
(* PullLogsOperator (worker/src/execution/operators/pull_log.rs): the     *)
(* paginated retrieval of a collection's log.  One task is one caller     *)
(* that invokes PullLogsOperator::run with a fixed PullLogsInput; run is  *)
(* an async fn whose only suspension point is the read of the log client, *)
(* so a step of the model is the code between two suspension points.      *)
(* The log client (Log::read, PullLogsError) is not part of this file: it *)
(* is modelled from its contract, a read returning the first batch_size   *)
(* entries with log_id > offset (and log_id_ts <= end_timestamp), or      *)
(* failing.  Every handle cloned from self.client reads the same logs and *)
(* keeps no state of its own.  Offsets and lengths stay far from the      *)
(* limits of i64 and usize, so the additions of run do not overflow.      *)
(***************************************************************************)
EXTENDS Integers, Sequences, FiniteSets, TLC

VARIABLES
    logs,              \* the log service: collection id string -> sequence of log entries
    input,             \* input[i]: the PullLogsInput task i passes to run
    pc,                \* pc[i]: "off" | "idle" | "reading" | "done" | "cancelled"
    offset,            \* offset[i]: the local `offset` of run
    num_records_read,  \* num_records_read[i]: the local `num_records_read` of run
    result,            \* result[i]: the local `result` of run
    reads,             \* reads[i]: the reads issued by the current invocation, in call order
    outcome,           \* outcome[i]: None while running, Some(PullLogsResult) once returned
    runs,              \* runs[i]: invocations started so far by task i
    prevOk,            \* prevOk[i]: the last Ok outcome of an earlier invocation of task i
    failedAt           \* failedAt[i]: 0, or the number of the read at which an earlier
                       \* invocation of task i failed or was abandoned

vars == <<logs, input, pc, offset, num_records_read, result, reads, outcome, runs,
          prevOk, failedAt>>

-----------------------------------------------------------------------------
(* Bounds of the model *)

MaxId == 3
MaxBatch == 3
MaxCap == 2
MaxRuns == 2

Tasks == {1, 2}
Timestamps == {1, 2}
Offsets == {0, 1}

-----------------------------------------------------------------------------
(* Option<T> *)

None == <<>>
Some(x) == <<x>>
is_some(o) == o # <<>>
unwrap(o) == o[1]

Min(a, b) == IF a <= b THEN a ELSE b
Last(s) == s[Len(s)]
Range(s) == {s[k] : k \in 1..Len(s)}

-----------------------------------------------------------------------------
(* usize: a 64-bit unsigned value kept as four 16-bit limbs, most          *)
(* significant first, so that `x as usize` of a negative i32 keeps its     *)
(* value 2^64 + x.                                                         *)

Limb == 65536

\* a conversion that takes a negative number to 0
as_usize_Saturating(n) ==
    IF n >= 0 THEN <<0, 0, n \div Limb, n % Limb>> ELSE <<0, 0, 0, 0>>

\* `n as usize` for an i32 n (sign extension to 64 bits, reinterpreted unsigned)
as_usize(n) ==
    IF n >= 0
      THEN <<0, 0, n \div Limb, n % Limb>>
      ELSE LET m == (n + 2147483647) + 1     \* n + 2^31, in 0 .. 2^31 - 1
           IN  <<Limb - 1, Limb - 1, (m \div Limb) + (Limb \div 2), m % Limb>>

\* the usize of a Vec length
usize_len(n) == <<0, 0, n \div Limb, n % Limb>>

RECURSIVE LexGt(_, _, _)
LexGt(a, b, k) ==
    IF k > 4 THEN FALSE
    ELSE IF a[k] # b[k] THEN a[k] > b[k]
    ELSE LexGt(a, b, k + 1)

usize_gt(a, b) == LexGt(a, b, 1)
usize_ge(a, b) == a = b \/ usize_gt(a, b)

\* Vec::truncate(len): no effect when len is not below the current length
truncate(v, len) ==
    IF usize_ge(len, usize_len(Len(v)))
      THEN v
      ELSE SubSeq(v, 1, len[3] * Limb + len[4])

-----------------------------------------------------------------------------
(* Uuid and the log service *)

Uuids == {1, 2}

\* Uuid::to_string
to_string(u) ==
    IF u = 1 THEN "00000000-0000-0000-0000-000000000001"
             ELSE "00000000-0000-0000-0000-000000000002"

Collections == {to_string(u) : u \in Uuids}

\* PullLogsError values a read can fail with
PullLogsErrors == {"LogReadError:transport", "LogReadError:storage"}

LogEntry == [log_id : 1..MaxId, log_id_ts : Timestamps]

\* every log: entries in strictly ascending log_id, any timestamps
LogSet ==
    {l \in UNION {[1..n -> LogEntry] : n \in 0..MaxId} :
        \A k \in 1..(Len(l) - 1) : l[k].log_id < l[k + 1].log_id}

\* the log of the second collection: two entries, with timestamps 1 and 2
OtherLog == <<[log_id |-> 1, log_id_ts |-> 1], [log_id |-> 2, log_id_ts |-> 2]>>

\* the entries of log l past offset and within the optional timestamp bound
Matching(l, off, end_timestamp) ==
    SelectSeq(l, LAMBDA e :
        /\ e.log_id > off
        /\ (is_some(end_timestamp) => e.log_id_ts <= unwrap(end_timestamp)))

Take(s, n) == IF n <= 0 THEN <<>> ELSE SubSeq(s, 1, Min(n, Len(s)))

\* Log::read on success
read(collection_id, off, batch_size, end_timestamp) ==
    Take(Matching(logs[collection_id], off, end_timestamp), batch_size)

-----------------------------------------------------------------------------
(* PullLogsInput *)

BatchSizes == (-1)..MaxBatch
NumRecords == {None} \cup {Some(k) : k \in (-1)..MaxCap}
EndTimestamps == {None, Some(1)}

PullLogsInput ==
    [collection_id : Uuids, offset : Offsets, batch_size : BatchSizes,
     num_records : NumRecords, end_timestamp : EndTimestamps]

\* the inputs of the tasks that run concurrently
ConcurrentInput ==
    [collection_id : Uuids, offset : {0}, batch_size : {1, 2},
     num_records : {None, Some(1)}, end_timestamp : {None}]

-----------------------------------------------------------------------------
(* PullLogsOperator::run *)

\* a read issued for a fixed collection and without the time bound of the input
ReadCall_OtherArguments(i, off) ==
    [collection_id |-> to_string(1),
     offset        |-> off,
     batch_size    |-> input[i].batch_size,
     end_timestamp |-> None,
     status        |-> "pending",
     n             |-> 0,
     returned      |-> <<>>,
     err           |-> ""]

\* the arguments of client_clone.read(...), with the state of the call
ReadCall(i, off) ==
    [collection_id |-> to_string(input[i].collection_id),
     offset        |-> off,
     batch_size    |-> input[i].batch_size,
     end_timestamp |-> input[i].end_timestamp,
     status        |-> "pending",
     n             |-> 0,
     returned      |-> <<>>,
     err           |-> ""]

\* the last read of task i, completed with the entries it returned
Completed(i, status, fetched, err) ==
    [reads[i] EXCEPT ![Len(reads[i])] =
        [@ EXCEPT !.status = status, !.n = Len(fetched), !.returned = fetched,
                  !.err = err]]

Ok(v) == [kind |-> "Ok", logs |-> v, err |-> ""]
Err(e) == [kind |-> "Err", logs |-> <<>>, err |-> e]

\* an append that leaves out the entries the accumulator already holds
Appended_Dedup(v, fetched) ==
    v \o SelectSeq(fetched, LAMBDA e : \A k \in 1..Len(v) : v[k] # e)

\* result.append(&mut logs)
Appended(v, fetched) == v \o fetched

\* a stride of the number of entries the read returned
NextOffset_ByCount(off, batch_size, fetched) == off + Len(fetched)

\* a stride of twice the batch size
NextOffset_Double(off, batch_size, fetched) == off + 2 * batch_size

\* offset += batch_size as i64
NextOffset(off, batch_size, fetched) == off + batch_size

\* a cap check that stops only once the cap is exceeded
CapReached_Strict(num_records, n) ==
    is_some(num_records) /\ usize_gt(usize_len(n), as_usize(unwrap(num_records)))

\* input.num_records.is_some() && num_records_read >= input.num_records.unwrap() as usize
CapReached(num_records, n) ==
    is_some(num_records) /\ usize_ge(usize_len(n), as_usize(unwrap(num_records)))

\* the truncation after the loop
Truncated(num_records, v) ==
    IF is_some(num_records) /\ usize_gt(usize_len(Len(v)), as_usize(unwrap(num_records)))
      THEN truncate(v, as_usize(unwrap(num_records)))
      ELSE v

\* run with every read succeeding, as one sequential computation: the loop from
\* the state (off, n, v) on, then the truncation
RECURSIVE Loop(_, _, _, _)
Loop(inp, off, n, v) ==
    LET fetched == read(to_string(inp.collection_id), off, inp.batch_size,
                        inp.end_timestamp)
    IN  IF fetched = <<>>
          THEN Truncated(inp.num_records, v)
          ELSE IF CapReached(inp.num_records, n + Len(fetched))
            THEN Truncated(inp.num_records, Appended(v, fetched))
            ELSE Loop(inp, NextOffset(off, inp.batch_size, fetched), n + Len(fetched),
                      Appended(v, fetched))

RunAlone(inp) == Loop(inp, inp.offset, 0, <<>>)

\* an invocation that issues its first two reads at once
Start_Prefetch(i) ==
    /\ pc[i] \in {"idle", "done", "cancelled"}
    /\ runs[i] < MaxRuns
    /\ runs' = [runs EXCEPT ![i] = @ + 1]
    /\ prevOk' = [prevOk EXCEPT ![i] =
                    IF is_some(outcome[i]) /\ unwrap(outcome[i]).kind = "Ok"
                      THEN outcome[i] ELSE @]
    /\ num_records_read' = [num_records_read EXCEPT ![i] = 0]
    /\ offset' = [offset EXCEPT ![i] = input[i].offset]
    /\ result' = [result EXCEPT ![i] = <<>>]
    /\ reads' = [reads EXCEPT ![i] =
                    <<ReadCall(i, input[i].offset),
                      ReadCall(i, input[i].offset + input[i].batch_size)>>]
    /\ outcome' = [outcome EXCEPT ![i] = None]
    /\ pc' = [pc EXCEPT ![i] = "reading"]
    /\ UNCHANGED <<logs, input, failedAt>>

\* an invocation that goes on from the offset the last one left
Start_KeepOffset(i) ==
    /\ pc[i] \in {"idle", "done", "cancelled"}
    /\ runs[i] < MaxRuns
    /\ runs' = [runs EXCEPT ![i] = @ + 1]
    /\ prevOk' = [prevOk EXCEPT ![i] =
                    IF is_some(outcome[i]) /\ unwrap(outcome[i]).kind = "Ok"
                      THEN outcome[i] ELSE @]
    /\ num_records_read' = [num_records_read EXCEPT ![i] = 0]
    /\ offset' = [offset EXCEPT ![i] = IF runs[i] = 0 THEN input[i].offset ELSE @]
    /\ result' = [result EXCEPT ![i] = <<>>]
    /\ reads' = [reads EXCEPT ![i] =
                    <<ReadCall(i, IF runs[i] = 0 THEN input[i].offset ELSE offset[i])>>]
    /\ outcome' = [outcome EXCEPT ![i] = None]
    /\ pc' = [pc EXCEPT ![i] = "reading"]
    /\ UNCHANGED <<logs, input, failedAt>>

\* an invocation that goes on with the accumulator the last one left
Start_KeepResult(i) ==
    /\ pc[i] \in {"idle", "done", "cancelled"}
    /\ runs[i] < MaxRuns
    /\ runs' = [runs EXCEPT ![i] = @ + 1]
    /\ prevOk' = [prevOk EXCEPT ![i] =
                    IF is_some(outcome[i]) /\ unwrap(outcome[i]).kind = "Ok"
                      THEN outcome[i] ELSE @]
    /\ num_records_read' = [num_records_read EXCEPT ![i] = 0]
    /\ offset' = [offset EXCEPT ![i] = input[i].offset]
    /\ reads' = [reads EXCEPT ![i] = <<ReadCall(i, input[i].offset)>>]
    /\ outcome' = [outcome EXCEPT ![i] = None]
    /\ pc' = [pc EXCEPT ![i] = "reading"]
    /\ UNCHANGED <<logs, input, failedAt, result>>

\* the caller invokes run(&input): the locals are set up and the first read is issued
Start(i) ==
    /\ pc[i] \in {"idle", "done", "cancelled"}
    /\ runs[i] < MaxRuns
    /\ runs' = [runs EXCEPT ![i] = @ + 1]
    /\ prevOk' = [prevOk EXCEPT ![i] =
                    IF is_some(outcome[i]) /\ unwrap(outcome[i]).kind = "Ok"
                      THEN outcome[i] ELSE @]
    /\ num_records_read' = [num_records_read EXCEPT ![i] = 0]
    /\ offset' = [offset EXCEPT ![i] = input[i].offset]
    /\ result' = [result EXCEPT ![i] = <<>>]
    /\ reads' = [reads EXCEPT ![i] = <<ReadCall(i, input[i].offset)>>]
    /\ outcome' = [outcome EXCEPT ![i] = None]
    /\ pc' = [pc EXCEPT ![i] = "reading"]
    /\ UNCHANGED <<logs, input, failedAt>>

\* break, truncation and return Ok(PullLogsOutput::new(result))
ReturnOk(i, v, n, off, history) ==
    /\ outcome' = [outcome EXCEPT ![i] = Some(Ok(Truncated(input[i].num_records, v)))]
    /\ result' = [result EXCEPT ![i] = Truncated(input[i].num_records, v)]
    /\ num_records_read' = [num_records_read EXCEPT ![i] = n]
    /\ offset' = [offset EXCEPT ![i] = off]
    /\ reads' = [reads EXCEPT ![i] = history]
    /\ pc' = [pc EXCEPT ![i] = "done"]

\* a loop body that reads the same page again after an empty one instead of
\* leaving the loop
ReadOk_NoBreak(i) ==
    /\ pc[i] = "reading"
    /\ LET call == Last(reads[i])
           fetched == read(call.collection_id, call.offset, call.batch_size,
                           call.end_timestamp)
           history == Completed(i, "ok", fetched, "")
           n == num_records_read[i] + Len(fetched)
           off == NextOffset(offset[i], input[i].batch_size, fetched)
           v == Appended(result[i], fetched)
       IN  IF fetched = <<>>
             THEN UNCHANGED <<num_records_read, offset, result, reads, outcome, pc>>
             ELSE IF CapReached(input[i].num_records, n)
               THEN ReturnOk(i, v, n, off, history)
               ELSE /\ num_records_read' = [num_records_read EXCEPT ![i] = n]
                    /\ offset' = [offset EXCEPT ![i] = off]
                    /\ result' = [result EXCEPT ![i] = v]
                    /\ reads' = [reads EXCEPT ![i] = Append(history, ReadCall(i, off))]
                    /\ UNCHANGED <<outcome, pc>>
    /\ UNCHANGED <<logs, input, runs, prevOk, failedAt>>

\* a loop body that keeps the offset in one cursor shared by all invocations
ReadOk_SharedOffset(i) ==
    /\ pc[i] = "reading"
    /\ LET call == Last(reads[i])
           fetched == read(call.collection_id, call.offset, call.batch_size,
                           call.end_timestamp)
           history == Completed(i, "ok", fetched, "")
           n == num_records_read[i] + Len(fetched)
           off == NextOffset(offset[i], input[i].batch_size, fetched)
           v == Appended(result[i], fetched)
       IN  IF fetched = <<>>
             THEN ReturnOk(i, result[i], num_records_read[i], offset[i], history)
             ELSE IF CapReached(input[i].num_records, n)
               THEN ReturnOk(i, v, n, off, history)
               ELSE /\ num_records_read' = [num_records_read EXCEPT ![i] = n]
                    /\ offset' = [j \in Tasks |-> off]
                    /\ result' = [result EXCEPT ![i] = v]
                    /\ reads' = [reads EXCEPT ![i] = Append(history, ReadCall(i, off))]
                    /\ UNCHANGED <<outcome, pc>>
    /\ UNCHANGED <<logs, input, runs, prevOk, failedAt>>

\* the read in flight returns Ok(fetched): the rest of the loop body, then either
\* the next read is issued or run returns
ReadOk(i) ==
    /\ pc[i] = "reading"
    /\ LET call == Last(reads[i])
           fetched == read(call.collection_id, call.offset, call.batch_size,
                           call.end_timestamp)
           history == Completed(i, "ok", fetched, "")
           n == num_records_read[i] + Len(fetched)
           off == NextOffset(offset[i], input[i].batch_size, fetched)
           v == Appended(result[i], fetched)
       IN  IF fetched = <<>>
             THEN ReturnOk(i, result[i], num_records_read[i], offset[i], history)
             ELSE IF CapReached(input[i].num_records, n)
               THEN ReturnOk(i, v, n, off, history)
               ELSE /\ num_records_read' = [num_records_read EXCEPT ![i] = n]
                    /\ offset' = [offset EXCEPT ![i] = off]
                    /\ result' = [result EXCEPT ![i] = v]
                    /\ reads' = [reads EXCEPT ![i] = Append(history, ReadCall(i, off))]
                    /\ UNCHANGED <<outcome, pc>>
    /\ UNCHANGED <<logs, input, runs, prevOk, failedAt>>

\* a failing read that is tried once more before the error is returned
ReadErr_Retry(i, e) ==
    /\ pc[i] = "reading"
    /\ IF Len(reads[i]) = 1
         THEN /\ reads' = [reads EXCEPT ![i] =
                            Append(Completed(i, "err", <<>>, e), ReadCall(i, offset[i]))]
              /\ UNCHANGED <<outcome, pc, failedAt>>
         ELSE /\ reads' = [reads EXCEPT ![i] = Completed(i, "err", <<>>, e)]
              /\ outcome' = [outcome EXCEPT ![i] = Some(Err(e))]
              /\ pc' = [pc EXCEPT ![i] = "done"]
              /\ failedAt' = [failedAt EXCEPT ![i] = Len(reads[i])]
    /\ UNCHANGED <<logs, input, offset, num_records_read, result, runs, prevOk>>

\* a failing read whose error is replaced by one fixed variant
ReadErr_OneVariant(i, e) ==
    /\ pc[i] = "reading"
    /\ reads' = [reads EXCEPT ![i] = Completed(i, "err", <<>>, e)]
    /\ outcome' = [outcome EXCEPT ![i] = Some(Err("LogReadError:transport"))]
    /\ pc' = [pc EXCEPT ![i] = "done"]
    /\ failedAt' = [failedAt EXCEPT ![i] = Len(reads[i])]
    /\ UNCHANGED <<logs, input, offset, num_records_read, result, runs, prevOk>>

\* a failing read that hands back what was accumulated so far
ReadErr_Partial(i, e) ==
    /\ pc[i] = "reading"
    /\ reads' = [reads EXCEPT ![i] = Completed(i, "err", <<>>, e)]
    /\ outcome' = [outcome EXCEPT ![i] =
                     Some([kind |-> "Err", logs |-> result[i], err |-> e])]
    /\ pc' = [pc EXCEPT ![i] = "done"]
    /\ failedAt' = [failedAt EXCEPT ![i] = Len(reads[i])]
    /\ UNCHANGED <<logs, input, offset, num_records_read, result, runs, prevOk>>

\* the read in flight returns Err(e): return Err(e)
ReadErr(i, e) ==
    /\ pc[i] = "reading"
    /\ reads' = [reads EXCEPT ![i] = Completed(i, "err", <<>>, e)]
    /\ outcome' = [outcome EXCEPT ![i] = Some(Err(e))]
    /\ pc' = [pc EXCEPT ![i] = "done"]
    /\ failedAt' = [failedAt EXCEPT ![i] = Len(reads[i])]
    /\ UNCHANGED <<logs, input, offset, num_records_read, result, runs, prevOk>>

\* the caller drops the future of run while the read is in flight
Cancel(i) ==
    /\ pc[i] = "reading"
    /\ reads' = [reads EXCEPT ![i] = Completed(i, "abandoned", <<>>, "")]
    /\ pc' = [pc EXCEPT ![i] = "cancelled"]
    /\ failedAt' = [failedAt EXCEPT ![i] = Len(reads[i])]
    /\ UNCHANGED <<logs, input, offset, num_records_read, result, outcome, runs, prevOk>>

-----------------------------------------------------------------------------
(* Specifications *)

InitLocals ==
    /\ offset = [i \in Tasks |-> 0]
    /\ num_records_read = [i \in Tasks |-> 0]
    /\ result = [i \in Tasks |-> <<>>]
    /\ reads = [i \in Tasks |-> <<>>]
    /\ outcome = [i \in Tasks |-> None]
    /\ runs = [i \in Tasks |-> 0]
    /\ prevOk = [i \in Tasks |-> None]
    /\ failedAt = [i \in Tasks |-> 0]

\* one caller that invokes run up to MaxRuns times, one invocation after another
Init ==
    /\ \E l \in LogSet :
          logs = [c \in Collections |-> IF c = to_string(1) THEN l ELSE OtherLog]
    /\ \E inp \in PullLogsInput : input = [i \in Tasks |-> inp]
    /\ pc = [i \in Tasks |-> IF i = 1 THEN "idle" ELSE "off"]
    /\ InitLocals

Next ==
    \E i \in Tasks :
        \/ Start(i)
        \/ ReadOk(i)
        \/ \E e \in PullLogsErrors : ReadErr(i, e)
        \/ Cancel(i)

Spec == Init /\ [][Next]_vars

\* two callers that each invoke run once on the same operator, at the same time
InitConcurrent ==
    /\ \E l \in LogSet :
          logs = [c \in Collections |-> IF c = to_string(1) THEN l ELSE OtherLog]
    /\ input \in [Tasks -> ConcurrentInput]
    /\ pc = [i \in Tasks |-> "idle"]
    /\ offset = [i \in Tasks |-> 0]
    /\ num_records_read = [i \in Tasks |-> 0]
    /\ result = [i \in Tasks |-> <<>>]
    /\ reads = [i \in Tasks |-> <<>>]
    /\ outcome = [i \in Tasks |-> None]
    /\ runs = [i \in Tasks |-> MaxRuns - 1]
    /\ prevOk = [i \in Tasks |-> None]
    /\ failedAt = [i \in Tasks |-> 0]

SpecConcurrent == InitConcurrent /\ [][Next]_vars

\* one caller who invokes run once, whose reads are always answered and who awaits
\* run to its end
InitAwaited ==
    /\ \E l \in LogSet :
          logs = [c \in Collections |-> IF c = to_string(1) THEN l ELSE OtherLog]
    /\ \E inp \in PullLogsInput : input = [i \in Tasks |-> inp]
    /\ pc = [i \in Tasks |-> IF i = 1 THEN "idle" ELSE "off"]
    /\ offset = [i \in Tasks |-> 0]
    /\ num_records_read = [i \in Tasks |-> 0]
    /\ result = [i \in Tasks |-> <<>>]
    /\ reads = [i \in Tasks |-> <<>>]
    /\ outcome = [i \in Tasks |-> None]
    /\ runs = [i \in Tasks |-> MaxRuns - 1]
    /\ prevOk = [i \in Tasks |-> None]
    /\ failedAt = [i \in Tasks |-> 0]

NextAwaited ==
    \E i \in Tasks :
        \/ Start(i)
        \/ ReadOk(i)
        \/ \E e \in PullLogsErrors : ReadErr(i, e)

SpecAwaited ==
    /\ InitAwaited
    /\ [][NextAwaited]_vars
    /\ \A i \in Tasks : WF_vars(ReadOk(i))

-----------------------------------------------------------------------------
(* What the properties speak of *)

\* the log of the collection task i reads
TheLog(i) == logs[to_string(input[i].collection_id)]

Returned(i) == pc[i] = "done" /\ is_some(outcome[i])
ReturnedOk(i) == Returned(i) /\ unwrap(outcome[i]).kind = "Ok"
ReturnedErr(i) == Returned(i) /\ unwrap(outcome[i]).kind = "Err"
Output(i) == unwrap(outcome[i]).logs

\* the invocation starts before the first entry of the log
AtBeginning(i) == TheLog(i) = <<>> \/ input[i].offset < TheLog(i)[1].log_id

NonEmptyReads(i) ==
    Cardinality({k \in 1..Len(reads[i]) : reads[i][k].status = "ok" /\ reads[i][k].n > 0})
EmptyReads(i) ==
    Cardinality({k \in 1..Len(reads[i]) : reads[i][k].status = "ok" /\ reads[i][k].n = 0})
FailedReads(i) ==
    {k \in 1..Len(reads[i]) : reads[i][k].status = "err"}

CeilDiv(a, b) == (a + b - 1) \div b

NoCap(i) == input[i].num_records = None
NoTimeBound(i) == input[i].end_timestamp = None

-----------------------------------------------------------------------------
(* C1: with batch_size B > 0, no cap and no time bound, an invocation      *)
(* started at the beginning of a log of E entries whose reads all succeed  *)
(* returns Ok with exactly the E entries in log order, after ceil(E/B)     *)
(* non-empty reads and one final empty read.                               *)
C1_FullDrain ==
    \A i \in Tasks :
        (/\ Returned(i)
         /\ FailedReads(i) = {}
         /\ input[i].batch_size > 0
         /\ NoCap(i) /\ NoTimeBound(i)
         /\ AtBeginning(i))
        => /\ unwrap(outcome[i]) = Ok(TheLog(i))
           /\ NonEmptyReads(i) = CeilDiv(Len(TheLog(i)), input[i].batch_size)
           /\ EmptyReads(i) = 1
           /\ Last(reads[i]).n = 0

(* C2: with batch_size B > 0 and a cap K >= 0, an invocation started at    *)
(* the beginning of a log of E entries whose reads all succeed returns Ok  *)
(* with exactly the first min(K, E) entries of the log, in order.          *)
C2_CapPrefix ==
    \A i \in Tasks :
        (/\ Returned(i)
         /\ FailedReads(i) = {}
         /\ input[i].batch_size > 0
         /\ is_some(input[i].num_records) /\ unwrap(input[i].num_records) >= 0
         /\ NoTimeBound(i)
         /\ AtBeginning(i))
        => unwrap(outcome[i]) =
              Ok(SubSeq(TheLog(i), 1, Min(unwrap(input[i].num_records), Len(TheLog(i)))))

(* C3: failure atomicity.  When a read of an invocation fails, run returns *)
(* Err and the outcome carries none of the entries accumulated from the    *)
(* earlier reads; no outcome is both an error and a list of entries.       *)
C3_FailureAtomicity ==
    \A i \in Tasks :
        Returned(i) =>
            /\ (FailedReads(i) # {} =>
                    unwrap(outcome[i]).kind = "Err" /\ Output(i) = <<>>)
            /\ (unwrap(outcome[i]).kind = "Err" => Output(i) = <<>>)
            /\ (unwrap(outcome[i]).kind = "Ok" => unwrap(outcome[i]).err = "")

\* a read failed after earlier reads had accumulated entries
C3_Witness ==
    \E i \in Tasks :
        /\ ReturnedErr(i)
        /\ Len(reads[i]) >= 3
        /\ Len(result[i]) >= 2
        /\ Last(reads[i]).status = "err"

(* C4: with end_timestamp = T and no cap, the entries run returns are      *)
(* exactly the entries of the log past input.offset with log_id_ts <= T    *)
(* (none missing, none later than T), whatever batch_size > 0 is used.     *)
C4_TimeBoundedSet ==
    \A i \in Tasks :
        (/\ ReturnedOk(i)
         /\ input[i].batch_size > 0
         /\ NoCap(i)
         /\ is_some(input[i].end_timestamp))
        => Range(Output(i)) =
              {e \in Range(TheLog(i)) :
                  /\ e.log_id > input[i].offset
                  /\ e.log_id_ts <= unwrap(input[i].end_timestamp)}

\* a time-bounded drain over several reads that leaves a later entry out
C4_Witness ==
    \E i \in Tasks :
        /\ ReturnedOk(i)
        /\ input[i].batch_size = 1
        /\ NoCap(i)
        /\ is_some(input[i].end_timestamp)
        /\ Cardinality(Range(Output(i))) >= 2
        /\ \E e \in Range(TheLog(i)) :
              /\ e.log_id > input[i].offset
              /\ e.log_id_ts > unwrap(input[i].end_timestamp)
              /\ \E f \in Range(Output(i)) : f.log_id > e.log_id

(* C5: an invocation with batch_size <= 0 ends in an error that is not a   *)
(* read error passed up from the log client (an invalid-argument failure); *)
(* it does not return Ok.                                                  *)
C5_RejectsNonPositiveBatch ==
    \A i \in Tasks :
        (Returned(i) /\ input[i].batch_size <= 0)
        => /\ unwrap(outcome[i]).kind = "Err"
           /\ unwrap(outcome[i]).err \notin PullLogsErrors

(* C6: two invocations of run on the same operator whose reads interleave  *)
(* in any order keep their own offset and accumulator, and each returns    *)
(* the result it returns when it runs alone on the same log.               *)
C6_ConcurrentIndependent ==
    \A i \in Tasks :
        /\ ReturnedOk(i) => Output(i) = RunAlone(input[i])
        /\ pc[i] = "reading" =>
              /\ offset[i] = input[i].offset + NonEmptyReads(i) * input[i].batch_size
              /\ result[i] \in Seq(Range(TheLog(i)))
              /\ Last(reads[i]).offset = offset[i]

\* one invocation has returned after several reads while the other, with another
\* input, is between its reads
C6_Witness ==
    \E i, j \in Tasks :
        /\ i # j
        /\ input[i] # input[j]
        /\ ReturnedOk(i) /\ Len(reads[i]) >= 3
        /\ pc[j] = "reading" /\ Len(reads[j]) >= 2

(* C7: determinism.  Invocations of run one after another with the same    *)
(* input on an unchanged log return the same output sequence.              *)
C7_Deterministic ==
    \A i \in Tasks :
        (ReturnedOk(i) /\ is_some(prevOk[i])) => outcome[i] = prevOk[i]

\* a second invocation has returned several entries after several reads
C7_Witness ==
    \E i \in Tasks :
        /\ ReturnedOk(i)
        /\ is_some(prevOk[i])
        /\ Len(Output(i)) >= 2
        /\ Len(reads[i]) >= 3

(* C8: idempotent restart.  After an invocation that failed on a read or   *)
(* was abandoned during a read, a new invocation with the same input       *)
(* starts from input.offset with an empty accumulator and returns what an  *)
(* invocation that never failed returns.                                   *)
C8_IdempotentRestart ==
    \A i \in Tasks :
        failedAt[i] > 0 =>
            /\ ReturnedOk(i) => Output(i) = RunAlone(input[i])
            /\ (pc[i] = "reading" /\ Len(reads[i]) = 1) =>
                  /\ offset[i] = input[i].offset
                  /\ reads[i][1].offset = input[i].offset
                  /\ result[i] = <<>>
                  /\ num_records_read[i] = 0

\* an invocation failed or was abandoned at its third read, and the next one
\* has returned
C8_Witness ==
    \E i \in Tasks :
        /\ failedAt[i] >= 3
        /\ ReturnedOk(i)
        /\ Len(Output(i)) >= 2

(* C9: run returns Err only when a read failed, the failing read is the    *)
(* last read of the invocation, and the error returned is the error of     *)
(* that read, unchanged.                                                   *)
C9_ErrorPassedThrough ==
    \A i \in Tasks :
        Returned(i) =>
            /\ (unwrap(outcome[i]).kind = "Err") = (FailedReads(i) # {})
            /\ FailedReads(i) \subseteq {Len(reads[i])}
            /\ unwrap(outcome[i]).kind = "Err" =>
                  /\ unwrap(outcome[i]).err = Last(reads[i]).err
                  /\ unwrap(outcome[i]).err \in PullLogsErrors

\* a read other than the first failed with the second error value
C9_Witness ==
    \E i \in Tasks :
        /\ ReturnedErr(i)
        /\ Len(reads[i]) >= 2
        /\ input[i].batch_size > 0
        /\ unwrap(outcome[i]).err = "LogReadError:storage"

(* C10: the k-th read of an invocation is issued with offset               *)
(* input.offset + (k-1) * batch_size: the offset advances by batch_size    *)
(* after every non-empty read, also after one that returned fewer than     *)
(* batch_size entries.                                                     *)
C10_OffsetStride ==
    \A i \in Tasks :
        \A k \in 1..Len(reads[i]) :
            /\ reads[i][k].offset = input[i].offset + (k - 1) * input[i].batch_size
            /\ (k < Len(reads[i])) => (reads[i][k].status = "ok" /\ reads[i][k].n > 0)

\* a read returned fewer than batch_size entries and another read followed it
C10_Witness ==
    \E i \in Tasks :
        \E k \in 1..Len(reads[i]) :
            /\ k < Len(reads[i])
            /\ reads[i][k].n > 0
            /\ reads[i][k].n < input[i].batch_size

-----------------------------------------------------------------------------
\* the entries the reads 1..k of task i returned, in call order
RECURSIVE ReturnedUpTo(_, _)
ReturnedUpTo(i, k) ==
    IF k = 0 THEN <<>> ELSE ReturnedUpTo(i, k - 1) \o reads[i][k].returned

AllReturned(i) == ReturnedUpTo(i, Len(reads[i]))

\* s cut to its first num_records entries when the cap is set and exceeded
CutToCap(num_records, s) ==
    IF is_some(num_records) /\ unwrap(num_records) >= 0 /\ Len(s) > unwrap(num_records)
      THEN SubSeq(s, 1, unwrap(num_records))
      ELSE s

(* C11: on success the output of run is the concatenation, in call order,  *)
(* of what its reads returned, cut to its first num_records entries when a *)
(* cap is set and exceeded: no returned entry is dropped, filtered,        *)
(* deduplicated or reordered.                                              *)
C11_OutputIsConcatenation ==
    \A i \in Tasks :
        ReturnedOk(i) => Output(i) = CutToCap(input[i].num_records, AllReturned(i))

\* two reads returned the same entry and the output holds it twice
C11_Witness ==
    \E i \in Tasks :
        /\ ReturnedOk(i)
        /\ NonEmptyReads(i) >= 2
        /\ \E j, k \in 1..Len(Output(i)) : j < k /\ Output(i)[j] = Output(i)[k]

(* C12: a read that fails or returns an empty result is the last read of   *)
(* its invocation: no read follows it, and the invocation is then at its   *)
(* terminal outcome, Err for a failed read and Ok for an empty one.        *)
C12_FailedOrEmptyReadIsLast ==
    \A i \in Tasks :
        \A k \in 1..Len(reads[i]) :
            /\ reads[i][k].status = "err" =>
                  /\ k = Len(reads[i])
                  /\ ReturnedErr(i)
            /\ (reads[i][k].status = "ok" /\ reads[i][k].n = 0) =>
                  /\ k = Len(reads[i])
                  /\ ReturnedOk(i)

\* an invocation failed at its second read or later, and the next one ended on an
\* empty read after two non-empty ones
C12_Witness ==
    \E i \in Tasks :
        /\ failedAt[i] >= 2
        /\ ReturnedOk(i)
        /\ Len(reads[i]) >= 3
        /\ Last(reads[i]).status = "ok" /\ Last(reads[i]).n = 0

\* the cap of task i as a number, when it is set and not negative
HasCap(i) == is_some(input[i].num_records) /\ unwrap(input[i].num_records) >= 0
Cap(i) == unwrap(input[i].num_records)

(* C13: with a cap num_records = K >= 0, every invocation issues at least  *)
(* one read (also for K = 0); a read after the first is issued only while  *)
(* fewer than K entries are accumulated, so none is issued once the        *)
(* accumulated length is >= K; and for K >= 1 the accumulated length       *)
(* before truncation is less than K + batch_size.                          *)
C13_CapCheckedAfterAppend ==
    \A i \in Tasks :
        HasCap(i) =>
            /\ pc[i] \in {"reading", "done", "cancelled"} => Len(reads[i]) >= 1
            /\ \A k \in 2..Len(reads[i]) : Len(ReturnedUpTo(i, k - 1)) < Cap(i)
            /\ pc[i] = "reading" => Len(result[i]) = Len(AllReturned(i))
            /\ (Cap(i) >= 1 /\ input[i].batch_size > 0) =>
                  Len(AllReturned(i)) < Cap(i) + input[i].batch_size

\* the last page went past the cap and the output was cut to the cap
C13_Witness ==
    \E i \in Tasks :
        /\ HasCap(i) /\ Cap(i) >= 1
        /\ ReturnedOk(i)
        /\ Len(AllReturned(i)) > Cap(i)
        /\ Len(Output(i)) = Cap(i)

(* C14: an invocation is strictly sequential: at most one of its reads is  *)
(* in flight, it is the last one issued, and every read before it has      *)
(* completed successfully with a non-empty result.                         *)
C14_OneReadInFlight ==
    \A i \in Tasks :
        /\ \A k \in 1..Len(reads[i]) :
              /\ reads[i][k].status = "pending" => k = Len(reads[i])
              /\ k < Len(reads[i]) => (reads[i][k].status = "ok" /\ reads[i][k].n > 0)
        /\ (pc[i] = "reading") =
              (reads[i] # <<>> /\ Last(reads[i]).status = "pending")

\* the third read of an invocation is in flight
C14_Witness ==
    \E i \in Tasks :
        /\ pc[i] = "reading"
        /\ Len(reads[i]) >= 3
        /\ Last(reads[i]).status = "pending"

(* C15: with batch_size > 0, on a finite log whose reads are always        *)
(* answered, an invocation that has started eventually returns, with or    *)
(* without a cap and with or without an end_timestamp.                     *)
C15_Terminates ==
    \A i \in Tasks :
        (pc[i] = "reading" /\ input[i].batch_size > 0) ~> (pc[i] = "done")

\* an invocation with a time bound has returned after draining the log in
\* several reads
C15_Witness ==
    \E i \in Tasks :
        /\ ReturnedOk(i)
        /\ input[i].batch_size > 0
        /\ is_some(input[i].end_timestamp)
        /\ Len(reads[i]) >= 3
        /\ Last(reads[i]).n = 0

(* C16: with batch_size > 0 the output of run is strictly ascending in     *)
(* log_id, so no entry appears twice, for every log (log_ids with gaps and *)
(* timestamps out of order included), offset, cap and end_timestamp.       *)
C16_StrictlyAscending ==
    \A i \in Tasks :
        (ReturnedOk(i) /\ input[i].batch_size > 0) =>
            \A k \in 1..(Len(Output(i)) - 1) :
                Output(i)[k].log_id < Output(i)[k + 1].log_id

(* C17: every read of an invocation is issued with the collection_id,      *)
(* batch_size and end_timestamp of the input; only the offset differs      *)
(* between reads, and no step of run changes the input or the logs.        *)
C17_ReadArgumentsAndFrame ==
    [][/\ input' = input
       /\ logs' = logs
       /\ \A i \in Tasks :
             \A k \in 1..Len(reads'[i]) :
                /\ reads'[i][k].collection_id = to_string(input[i].collection_id)
                /\ reads'[i][k].batch_size = input[i].batch_size
                /\ reads'[i][k].end_timestamp = input[i].end_timestamp
                /\ \A j \in 1..(k - 1) : reads'[i][j].offset # reads'[i][k].offset]_vars

\* a second read, at another offset, on the second collection and with a time bound
C17_Witness ==
    \E i \in Tasks :
        /\ Len(reads[i]) >= 2
        /\ reads[i][1].n > 0
        /\ input[i].collection_id = 2
        /\ is_some(input[i].end_timestamp)
        /\ input[i].batch_size > 0

(* C18: a negative cap num_records = K < 0 acts as no cap: the cap never   *)
(* stops the loop, nothing is truncated, and run returns what it returns   *)
(* with num_records = None.                                                *)
C18_NegativeCapIsNoCap ==
    \A i \in Tasks :
        (ReturnedOk(i) /\ is_some(input[i].num_records)
                       /\ unwrap(input[i].num_records) < 0) =>
            /\ Output(i) = RunAlone([input[i] EXCEPT !.num_records = None])
            /\ Output(i) = AllReturned(i)
            /\ Last(reads[i]).n = 0

\* an invocation with num_records = -1 has drained several entries
C18_Witness ==
    \E i \in Tasks :
        /\ ReturnedOk(i)
        /\ input[i].num_records = Some(-1)
        /\ Len(reads[i]) >= 3
        /\ Len(Output(i)) >= 2

====
